---- MODULE Spec2Model ----
(***************************************************************************)
(* Composition session (src/src/tsf/composition.rs) and candidate window   *)
(* (src/src/ui/candidate_list.rs) of the OpenBangla text service.          *)
(*                                                                         *)
(* The session fields and the window's HighlightState are the variables.   *)
(* Every handler is an operator from a state record to a state record,     *)
(* translated statement by statement; `err` is the handler's Result.       *)
(* A client operation that calls into the host (edit_session::set_text)    *)
(* holds the session lock while it waits in that call; the host may        *)
(* deliver OnCompositionTerminated nested inside it.  The handler's        *)
(* effects are published when the host call returns: while it waits the    *)
(* lock is held, so no other code can read the session.                    *)
(***************************************************************************)
EXTENDS Integers, Sequences, FiniteSets, TLC

VARIABLES
    composition,     \* TextServiceInner.composition: TRUE = Some(handle)
    preedit,         \* TextServiceInner.preedit: sequence of characters
    suggestions,     \* TextServiceInner.suggestions: <<>> = None, <<set>> = Some(set)
    candidate_list,  \* TextServiceInner.candidate_list: the window and its HighlightState
    hostOpen,        \* host side: the composition transaction is alive
    lock,            \* RwLock around TextServiceInner: "free" or "client"
    pc,              \* client operation: "idle" or "host_write" (waiting in the host call)
    cur,             \* the client operation in flight (or the last one): its name,
                     \* its arguments and, once returned, the engine's CandidateSet
    ret,             \* Result of the last client operation
    sinkpc,          \* OnCompositionTerminated: "none", "called", "skipped", "aborted"
    events,          \* engine / host / window calls made by the current operation, in order
    conf,            \* the snapshot conf::get() returned last (layout.vertical)
    metrics,         \* what DirectWrite measures for a text (the font in use)
    paint_arg,       \* the PaintArg in the window's user data: <<>> = 0, <<arg>> = a snapshot
    wnd_size,        \* the window's size, as last set by SetWindowPos: <<width, height>>
    frame,           \* what the current operation drew: <<>> = nothing, <<f>> = the frame f
    CONF,            \* static CONF: OnceLock<Conf>: <<>> = not initialised, <<c>> = holds c
    conf_toml,       \* %APPDATA%/<IME_NAME>/conf.toml, as Conf::open finds it
    loads,           \* how many times Conf::open_or_default has run
    enumerated,      \* EnumDisplayAttributeInfo.enumerated (AtomicBool)
    enum_log         \* the calls made on the enumerator since its creation, with results

\* the paint path of the window: specified by LayoutSpec, not observed by the session
paintvars == <<conf, metrics, paint_arg, wnd_size, frame>>

\* the configuration cell: specified by ConfSpec
confvars == <<CONF, conf_toml, loads>>

\* the display-attribute enumerator: specified by EnumSpec
enumvars == <<enumerated, enum_log>>

vars == <<composition, preedit, suggestions, candidate_list, hostOpen,
          lock, pc, cur, ret, sinkpc, events,
          conf, metrics, paint_arg, wnd_size, frame,
          CONF, conf_toml, loads, enumerated, enum_log>>

-----------------------------------------------------------------------------
(* Constants of the program and bounds of the model *)

CANDI_NUM == 9

\* longest ordinary candidate list the engine returns (an oversized list of
\* CANDI_NUM + 1 entries is always included as well)
MaxLen == 2
\* largest previously-selected index the engine reports
MaxPrev == 1
\* longest preedit: force_release pushes a character and keeps it when the
\* host write fails, so repeated failures grow the preedit without limit
MaxPreedit == 2
\* most calls made on one display-attribute enumerator
MaxCalls == 3

Min(a, b) == IF a < b THEN a ELSE b

-----------------------------------------------------------------------------
(* Texts: sequences of characters (characters are numbers) *)

Cand(i) == <<i>>                  \* the text of the candidate ranked i
AuxTexts == {<<20>>}              \* auxiliary texts of a multi-candidate set
LonelyTexts == {<<>>, <<30>>}     \* sole interpretations of a lonely set
AppendChars == {<<>>, <<40>>}     \* Option<char>: <<>> = None, <<c>> = Some(c)
RawChars == {41}                  \* the characters handed to force_commit

-----------------------------------------------------------------------------
(* CandidateSet: the engine's result (riti Suggestion), an external black box *)

Full(n, aux, p) ==
    [lonely |-> FALSE, suggestions |-> [i \in 1..n |-> Cand(i)],
     auxiliary |-> aux, selection |-> p]

Single(t) ==
    [lonely |-> TRUE, suggestions |-> IF t = <<>> THEN <<>> ELSE <<t>>,
     auxiliary |-> <<>>, selection |-> 0]

\* ordinary sets of 0..MaxLen candidates with every hint 0..MaxPrev, and an
\* oversized set of CANDI_NUM + 1 candidates whose hint is 0 or CANDI_NUM
EngineSets ==
    {Full(n, aux, p) : n \in 0..MaxLen, aux \in AuxTexts, p \in 0..MaxPrev}
        \cup {Full(CANDI_NUM + 1, aux, p) : aux \in AuxTexts, p \in {0, CANDI_NUM}}
        \cup {Single(t) : t \in LonelyTexts}

is_lonely(sg) == sg.lonely
is_empty(sg) == sg.suggestions = <<>>
len(sg) == IF sg.lonely THEN 1 ELSE Len(sg.suggestions)
get_suggestions(sg) == sg.suggestions
get_auxiliary_text(sg) == sg.auxiliary
previously_selected_index(sg) == sg.selection
\* index is 0-based; a lonely set answers its sole interpretation for any index
get_pre_edit_text(sg, index) ==
    IF sg.lonely
        THEN (IF sg.suggestions = <<>> THEN <<>> ELSE sg.suggestions[1])
        ELSE (IF index < Len(sg.suggestions) THEN sg.suggestions[index + 1] ELSE <<>>)

-----------------------------------------------------------------------------
(* Events: the calls a handler makes to its collaborators *)

Ev(name, idx, text) == [ev |-> name, idx |-> idx, text |-> text]
Log(s, name, idx, text) == [s EXCEPT !.events = Append(@, Ev(name, idx, text))]
RECURSIVE CountEv(_, _)
CountEv(es, name) ==
    IF es = <<>> THEN 0
    ELSE (IF Head(es).ev = name THEN 1 ELSE 0) + CountEv(Tail(es), name)
EvIndex(es, name) == CHOOSE i \in 1..Len(es) : es[i].ev = name
HasEv(es, name) == \E i \in 1..Len(es) : es[i].ev = name

-----------------------------------------------------------------------------
(* Candidate window: CandidateList and its HighlightState *)

NoWindow ==
    [created |-> FALSE, visible |-> FALSE, highlighted_index |-> 0,
     candidate_count |-> 0, candidates |-> <<>>]

\* CandidateList::create: a fresh, hidden window with an empty HighlightState
create(ok) == IF ok THEN [NoWindow EXCEPT !.created = TRUE] ELSE NoWindow

RenderOutcomes == {"ok", "format_failed", "resize_failed"}

\* repaint(resize): r is what the rendering backend does this time
repaint(w, resize, r) ==
    IF w.candidates = <<>> THEN [w |-> w, err |-> FALSE]
    ELSE IF r = "format_failed" THEN [w |-> w, err |-> FALSE]
    ELSE IF resize
        THEN (IF r = "resize_failed"
                 THEN [w |-> w, err |-> TRUE]
                 ELSE [w |-> [w EXCEPT !.visible = TRUE], err |-> FALSE])
        ELSE [w |-> w, err |-> FALSE]

\* invalidate that repaints with resize
invalidate_resizing(w, r) == repaint(w, TRUE, r).w

invalidate(w, r) == repaint(w, FALSE, r).w

\* move_highlight_next without the wrap-around
move_highlight_next_nowrap(w, r) ==
    IF w.candidate_count = 0 THEN w
    ELSE invalidate([w EXCEPT !.highlighted_index = w.highlighted_index + 1], r)

move_highlight_next(w, r) ==
    IF w.candidate_count = 0 THEN w
    ELSE invalidate([w EXCEPT !.highlighted_index =
                        (w.highlighted_index + 1) % w.candidate_count], r)

\* move_highlight_prev that stops at the first candidate
move_highlight_prev_saturating(w, r) ==
    IF w.candidate_count = 0 THEN w
    ELSE invalidate([w EXCEPT !.highlighted_index =
                        IF w.highlighted_index = 0
                            THEN 0
                            ELSE w.highlighted_index - 1], r)

move_highlight_prev(w, r) ==
    IF w.candidate_count = 0 THEN w
    ELSE invalidate([w EXCEPT !.highlighted_index =
                        IF w.highlighted_index = 0
                            THEN w.candidate_count - 1
                            ELSE w.highlighted_index - 1], r)

\* set_highlight without its bounds check
set_highlight_unchecked(w, index, r) ==
    invalidate([w EXCEPT !.highlighted_index = index], r)

set_highlight(w, index, r) ==
    IF index >= w.candidate_count THEN w
    ELSE invalidate([w EXCEPT !.highlighted_index = index], r)

get_highlighted_index(w) == w.highlighted_index
get_candidate_count(w) == w.candidate_count
reset_highlight(w) == [w EXCEPT !.highlighted_index = 0]

\* show that stores the whole list
show_untruncated(w, suggs, r) ==
    repaint([w EXCEPT !.highlighted_index = 0,
                      !.candidate_count = Len(suggs),
                      !.candidates = suggs],
            TRUE, r)

show(w, suggs, r) ==
    repaint([w EXCEPT !.highlighted_index = 0,
                      !.candidate_count = Min(Len(suggs), CANDI_NUM),
                      !.candidates = SubSeq(suggs, 1, Min(Len(suggs), CANDI_NUM))],
            TRUE, r)

hide(w) == [w EXCEPT !.visible = FALSE]


-----------------------------------------------------------------------------
(* Layout and paint of the candidate window.  Lengths are the code's f32    *)
(* values, held exactly as numbers of fifths of a unit (the only fraction   *)
(* the code forms is 4/5 of the window height): F(x) is x units.            *)

CLIP_WIDTH == 3
LABEL_PADDING_TOP == 4
LABEL_PADDING_BOTTOM == 4
LABEL_PADDING_LEFT == 5
LABEL_PADDING_RIGHT == 6
INDEX_CANDI_GAP == 6
BORDER_WIDTH == 0
ENGLISH_Y_OFFSET == 0 - 3

F(x) == 5 * x
Max(a, b) == IF a > b THEN a ELSE b
\* f32::ceil of a length, in whole units
ceil(x) == (x + 4) \div 5

RECURSIVE SeqMax(_)
SeqMax(q) == IF q = <<>> THEN 0 ELSE Max(Head(q), SeqMax(Tail(q)))

\* the configurations: conf.layout.vertical
Confs == [vertical : BOOLEAN]

\* the fonts: what a text measures.  A text's width and height depend on the
\* text (its first character c); the last profile measures (0, 0) for every
\* text, which is what measure_text_dwrite answers when DirectWrite fails.
Metrics ==
    {[cw0 |-> 7, cwd |-> 3, iw0 |-> 4, iwd |-> 1, ch0 |-> 8, chd |-> 2, ih0 |-> 6],
     [cw0 |-> 2, cwd |-> 0, iw0 |-> 4, iwd |-> 0, ch0 |-> 8, chd |-> 0, ih0 |-> 11],
     [cw0 |-> 0, cwd |-> 0, iw0 |-> 0, iwd |-> 0, ch0 |-> 0, chd |-> 0, ih0 |-> 0]}

\* measure_text_dwrite(factory, text, format): <<width, height>>
measure_text_dwrite(text, format) ==
    LET c == IF text = <<>> THEN 0 ELSE text[1]
    IN IF format = "index"
          THEN <<F(metrics.iw0 + metrics.iwd * (c % 3)), F(metrics.ih0)>>
          ELSE <<F(metrics.cw0 + metrics.cwd * (c % 3)), F(metrics.ch0 + metrics.chd * (c % 2))>>

\* format!("{}{}", CANDI_INDEXES[index], self.index_suffix), index 0-based
index_str(index) == <<index + 1>>

is_ascii_text(text) == \A k \in 1..Len(text) : text[k] < 128

\* the measurement loop of repaint, over the first CANDI_NUM candidates
Measured(suggs) ==
    LET n == Min(Len(suggs), CANDI_NUM)
    IN [indice |-> [i \in 1..n |-> index_str(i - 1)],
        candis |-> [i \in 1..n |-> suggs[i]],
        index_widths |-> [i \in 1..n |-> measure_text_dwrite(index_str(i - 1), "index")[1]],
        index_heights |-> [i \in 1..n |-> measure_text_dwrite(index_str(i - 1), "index")[2]],
        candi_widths |-> [i \in 1..n |-> measure_text_dwrite(suggs[i], "candi")[1]],
        candi_heights |-> [i \in 1..n |-> measure_text_dwrite(suggs[i], "candi")[2]]]

\* index_width that takes the first label's width
index_width_first(suggs) ==
    IF suggs = <<>> THEN 0 ELSE Measured(suggs).index_widths[1]

\* index_width: the widest index label
index_width(suggs) == SeqMax(Measured(suggs).index_widths)

\* row_height that ignores the index labels
row_height_candi_only(suggs) == SeqMax(Measured(suggs).candi_heights)

row_height(suggs) ==
    Max(SeqMax(Measured(suggs).candi_heights), SeqMax(Measured(suggs).index_heights))

label_height(suggs) == F(LABEL_PADDING_TOP) + row_height(suggs) + F(LABEL_PADDING_BOTTOM)

wnd_height(suggs) ==
    (IF conf.vertical
        THEN Min(Len(suggs), CANDI_NUM) * label_height(suggs)
        ELSE label_height(suggs))
    + F(BORDER_WIDTH * 2)

\* the horizontal loop: one term per measured candidate
RECURSIVE HorizontalWidth(_, _)
HorizontalWidth(candi_widths, iw) ==
    IF candi_widths = <<>> THEN 0
    ELSE F(LABEL_PADDING_LEFT) + F(LABEL_PADDING_RIGHT) + iw + F(INDEX_CANDI_GAP)
            + Head(candi_widths) + HorizontalWidth(Tail(candi_widths), iw)

wnd_width(suggs) ==
    (IF conf.vertical
        THEN Max(F(CLIP_WIDTH) + F(LABEL_PADDING_LEFT) + index_width(suggs)
                    + F(INDEX_CANDI_GAP) + SeqMax(Measured(suggs).candi_widths)
                    + F(LABEL_PADDING_RIGHT),
                 (Min(Len(suggs), CANDI_NUM) * label_height(suggs) * 4) \div 5)
        ELSE F(CLIP_WIDTH) + HorizontalWidth(Measured(suggs).candi_widths, index_width(suggs)))
    + F(BORDER_WIDTH * 2)

\* highlight_width that always takes the first candidate's width
highlight_width_first(suggs, highlighted_index) ==
    IF conf.vertical
        THEN wnd_width(suggs) - F(CLIP_WIDTH) - F(BORDER_WIDTH * 2)
        ELSE F(LABEL_PADDING_LEFT) + index_width(suggs) + F(INDEX_CANDI_GAP)
                + Measured(suggs).candi_widths[1] + F(LABEL_PADDING_RIGHT)

highlight_width(suggs, highlighted_index) ==
    IF conf.vertical
        THEN wnd_width(suggs) - F(CLIP_WIDTH) - F(BORDER_WIDTH * 2)
        ELSE F(LABEL_PADDING_LEFT) + index_width(suggs) + F(INDEX_CANDI_GAP)
                + Measured(suggs).candi_widths[highlighted_index + 1] + F(LABEL_PADDING_RIGHT)

\* the PaintArg repaint builds from the window's state w
PaintArg(w) ==
    [highlight_width |-> highlight_width(w.candidates, w.highlighted_index),
     label_height |-> label_height(w.candidates),
     row_height |-> row_height(w.candidates),
     index_width |-> index_width(w.candidates),
     candi_widths |-> Measured(w.candidates).candi_widths,
     candis |-> Measured(w.candidates).candis,
     indice |-> Measured(w.candidates).indice,
     highlighted_index |-> w.highlighted_index]

\* a size that never shrinks: the larger of the new and the current one
window_size_keeps_largest(w) ==
    <<Max(ceil(wnd_width(w.candidates)), wnd_size[1]),
      Max(ceil(wnd_height(w.candidates)), wnd_size[2])>>

\* the size repaint hands to SetWindowPos
window_size(w) == <<ceil(wnd_width(w.candidates)), ceil(wnd_height(w.candidates))>>

\* repaint gets as far as building the PaintArg
repaint_stores(w, r) == w.candidates # <<>> /\ r # "format_failed"

\* repaint's effect on the window's user data and size; w is the window's
\* state when repaint reads it
RepaintSurface(w, resize, r) ==
    /\ paint_arg' = IF repaint_stores(w, r) THEN <<PaintArg(w)>> ELSE paint_arg
    /\ wnd_size' = IF repaint_stores(w, r) /\ resize /\ r = "ok"
                      THEN window_size(w)
                      ELSE wnd_size
    /\ events' = IF ~repaint_stores(w, r) THEN <<>>
                 ELSE <<Ev("SetWindowLongPtrA", w.highlighted_index, <<>>)>>
                        \o (IF ~resize THEN <<>>
                            ELSE IF r = "ok" THEN <<Ev("SetWindowPos", 0, <<>>)>>
                            ELSE <<Ev("resize_failed", 0, <<>>)>>)

\* an operation that returns before it reaches repaint
NoRepaint ==
    /\ events' = <<>>
    /\ UNCHANGED <<paint_arg, wnd_size>>

\* what can fail in a paint: the render target, the text formats, or one of
\* the brushes (clip, highlight, text)
PaintOutcomes ==
    {"ok", "no_render_target", "no_text_formats",
     "no_clip_brush", "no_highlight_brush", "no_text_brushes"}

\* highlight_x that stays at the first cell
highlight_x_first(arg) == F(BORDER_WIDTH + CLIP_WIDTH)

\* paint: where the highlight rectangle starts
highlight_x(arg) ==
    IF conf.vertical
        THEN F(BORDER_WIDTH + CLIP_WIDTH)
        ELSE F(BORDER_WIDTH + CLIP_WIDTH)
                + HorizontalWidth(SubSeq(arg.candi_widths, 1, arg.highlighted_index),
                                  arg.index_width)

highlight_y(arg) ==
    IF conf.vertical
        THEN F(BORDER_WIDTH) + arg.highlighted_index * arg.label_height
        ELSE F(BORDER_WIDTH)

\* text_brush that highlights the first item
text_brush_first(arg, i) == IF i = 0 THEN "highlighted" ELSE "candidate"

\* the brush of the candidate text of item i (0-based)
text_brush(arg, i) == IF i = arg.highlighted_index THEN "highlighted" ELSE "candidate"

\* the text loop: index_x of item i (0-based)
index_x(arg, i) ==
    F(BORDER_WIDTH + CLIP_WIDTH + LABEL_PADDING_LEFT)
        + (IF conf.vertical THEN 0
           ELSE HorizontalWidth(SubSeq(arg.candi_widths, 1, i), arg.index_width))

text_y(arg, i) ==
    F(BORDER_WIDTH) + F(LABEL_PADDING_TOP)
        + (IF conf.vertical THEN i * arg.label_height ELSE 0)

\* the two draw_text_with_color_emoji calls for item i (0-based)
DrawItem(arg, i) ==
    [index |-> arg.indice[i + 1],
     index_x |-> index_x(arg, i),
     index_y |-> text_y(arg, i),
     index_brush |-> "index",
     candi |-> arg.candis[i + 1],
     candi_x |-> index_x(arg, i) + arg.index_width + F(INDEX_CANDI_GAP),
     candi_y |-> text_y(arg, i)
                    + (IF is_ascii_text(arg.candis[i + 1]) THEN F(ENGLISH_Y_OFFSET) ELSE 0),
     candi_brush |-> text_brush(arg, i)]

\* what paint draws from the snapshot arg: the clip strip and the highlight
\* rectangle (each only if its brush could be created) and, unless a text
\* brush is missing, every item
paint(arg, outcome) ==
    [clip |-> IF outcome = "no_clip_brush" THEN <<>>
              ELSE <<[left |-> F(BORDER_WIDTH),
                      top |-> IF conf.vertical THEN highlight_y(arg) ELSE F(BORDER_WIDTH),
                      width |-> F(CLIP_WIDTH),
                      height |-> arg.label_height]>>,
     highlight |-> IF outcome = "no_highlight_brush" THEN <<>>
                   ELSE <<[left |-> highlight_x(arg),
                           top |-> highlight_y(arg),
                           width |-> arg.highlight_width,
                           height |-> arg.label_height]>>,
     items |-> IF outcome = "no_text_brushes" THEN <<>>
               ELSE [k \in 1..Len(arg.candis) |-> DrawItem(arg, k - 1)]]

-----------------------------------------------------------------------------
(* The session: TextServiceInner.  A state record s holds the session      *)
(* fields, the window (cl), the host's composition, the event log and the  *)
(* Result (err) of the call just made.  `in` holds what the environment    *)
(* answers during one handler: the host write (ok), window creation        *)
(* (create), the rendering backend (render), the caret position query      *)
(* (pos) and the reposition call (locate).                                 *)

In(ok, cr, r, pos, loc, sg) ==
    [ok |-> ok, create |-> cr, render |-> r, pos |-> pos, locate |-> loc, sg |-> sg]

\* handlers that only write to the host
WriteInputs == {In(ok, TRUE, "ok", FALSE, TRUE, <<>>) : ok \in BOOLEAN}

\* handlers that also drive the window; window creation is asked only while
\* there is no window, locate only after a position was obtained
WindowInputs(s, sgs) ==
    {In(ok, cr, r, pl[1], pl[2], sg) :
        ok \in BOOLEAN,
        cr \in (IF s.cl.created THEN {TRUE} ELSE BOOLEAN),
        r \in RenderOutcomes,
        pl \in {<<FALSE, TRUE>>, <<TRUE, TRUE>>, <<TRUE, FALSE>>},
        sg \in sgs}

\* what the environment may answer to the handler op running in state s;
\* keypress and pop also get the engine's CandidateSet
Inputs(op, s) ==
    IF op \in {"keypress", "pop"} THEN WindowInputs(s, {<<sg>> : sg \in EngineSets})
    ELSE IF op = "start_composition" THEN WindowInputs(s, {<<>>})
    ELSE WriteInputs

Ok(s) == [s EXCEPT !.err = FALSE]
Err(s) == [s EXCEPT !.err = TRUE]

\* self.candidate_list(): Err when the window was never created
has_candidate_list(s) == s.cl.created

\* assure_candidate_list: create the window unless it exists
assure_candidate_list(s, in) ==
    IF s.cl.created THEN Ok(s)
    ELSE IF in.create THEN Ok([s EXCEPT !.cl = create(TRUE)])
    ELSE Err(s)

\* get_pos: Some((x, y)) iff the composition exists and the host answers a normal position
get_pos(s, in) == s.composition /\ in.pos

\* CandidateList::locate as called through self.candidate_list()?.locate(x, y)?
locate(s, in) ==
    IF ~has_candidate_list(s) THEN Err(s)
    ELSE IF ~in.locate THEN Err(s)
    ELSE Ok(Log(s, "locate", 0, <<>>))

start_composition(s, in) ==
    IF ~in.ok THEN Err(s)
    ELSE LET s1 == Log([s EXCEPT !.composition = TRUE, !.hostOpen = TRUE],
                       "start_composition", 0, <<>>)
         IN IF get_pos(s1, in) THEN locate(s1, in) ELSE Ok(s1)

\* end_composition that leaves the window as it is
end_composition_keeps_window(s) ==
    LET s1 == IF s.composition
                 THEN Log([s EXCEPT !.hostOpen = FALSE], "host_end_composition", 0, <<>>)
                 ELSE s
        s2 == Log(s1, "finish_input_session", 0, <<>>)
        s3 == [s2 EXCEPT !.composition = FALSE, !.preedit = <<>>, !.suggestions = <<>>]
    IN IF ~has_candidate_list(s3) THEN Err(s3)
       ELSE Ok(Log(s3, "hide", 0, <<>>))

\* end_composition that forgets preedit.clear()
end_composition_keeps_preedit(s) ==
    LET s1 == IF s.composition
                 THEN Log([s EXCEPT !.hostOpen = FALSE], "host_end_composition", 0, <<>>)
                 ELSE s
        s2 == Log(s1, "finish_input_session", 0, <<>>)
        s3 == [s2 EXCEPT !.composition = FALSE, !.suggestions = <<>>]
    IN IF ~has_candidate_list(s3) THEN Err(s3)
       ELSE Ok([Log(s3, "hide", 0, <<>>) EXCEPT !.cl = hide(@)])

end_composition(s) ==
    LET s1 == IF s.composition
                 THEN Log([s EXCEPT !.hostOpen = FALSE], "host_end_composition", 0, <<>>)
                 ELSE s
        s2 == Log(s1, "finish_input_session", 0, <<>>)
        s3 == [s2 EXCEPT !.composition = FALSE, !.preedit = <<>>, !.suggestions = <<>>]
    IN IF ~has_candidate_list(s3) THEN Err(s3)
       ELSE Ok([Log(s3, "hide", 0, <<>>) EXCEPT !.cl = hide(@)])

\* update_preedit: writes the preedit, with the display attribute (idx 1)
update_preedit(s, in) ==
    IF ~s.composition \/ ~in.ok THEN Err(s)
    ELSE Ok(Log(s, "set_text", 1, s.preedit))

\* set_text: writes text, without display attribute (idx 0)
set_text(s, text, in) ==
    IF ~s.composition \/ ~in.ok THEN Err(s)
    ELSE Ok(Log(s, "set_text", 0, text))

update_candidate_list(s, in) ==
    LET s1 == assure_candidate_list(s, in)
        sg == s.suggestions[1]
    IN IF s1.err THEN s1
       ELSE IF is_empty(sg)
           THEN Ok([Log(s1, "hide", 0, <<>>) EXCEPT !.cl = hide(@)])
           ELSE LET r == show(s1.cl, get_suggestions(sg), in.render)
                    s1a == [Log(s1, "show", Len(get_suggestions(sg)), <<>>) EXCEPT !.cl = r.w]
                    \* repaint reaches ShowWindow(SW_SHOWNOACTIVATE)
                    s2 == IF in.render = "ok" THEN Log(s1a, "show_window", 0, <<>>) ELSE s1a
                IN IF r.err THEN Err(Log(s2, "resize_failed", 0, <<>>))   \* SetWindowPos(..)?
                   ELSE IF get_pos(s2, in) THEN locate(s2, in)
                   ELSE Ok(s2)

keypress(s, sg, in) ==
    LET selected == IF has_candidate_list(s)
                       THEN get_highlighted_index(s.cl) % 256
                       ELSE 0
        s0 == Log(s, "get_suggestion_for_key", selected, <<>>)
    IN IF is_lonely(sg)
          THEN LET s1 == update_preedit([s0 EXCEPT !.preedit = get_pre_edit_text(sg, 0)], in)
               IN IF s1.err THEN s1
                  ELSE Ok([s1 EXCEPT !.suggestions = <<sg>>])
          ELSE LET prev == previously_selected_index(sg)
                   s1 == update_preedit([s0 EXCEPT !.preedit = get_auxiliary_text(sg),
                                                   !.suggestions = <<sg>>], in)
                   s2 == update_candidate_list(s1, in)
               IN IF s1.err THEN s1
                  ELSE IF s2.err THEN s2
                  ELSE IF prev # 0
                      THEN Ok([s2 EXCEPT !.cl = set_highlight(@, prev, in.render)])
                      ELSE Ok(s2)

\* abort that propagates the failed write (set_text(..)?) instead of dropping it
abort_propagates(s, in) ==
    LET s1 == set_text(s, s.preedit, in)
    IN IF s1.err THEN s1 ELSE end_composition(s1)

abort(s, in) ==
    LET s1 == set_text(s, s.preedit, in)
    IN end_composition(s1)

\* pop that clears the preedit of an empty result but does not abort
pop_without_abort(s, sg, in) ==
    LET s0 == Log(s, "backspace_event", 0, <<>>)
    IN IF is_empty(sg)
          THEN Ok([s0 EXCEPT !.preedit = <<>>])
       ELSE IF is_lonely(sg)
          THEN update_preedit([s0 EXCEPT !.preedit = get_pre_edit_text(sg, 0),
                                         !.suggestions = <<sg>>], in)
          ELSE LET s1 == update_preedit([s0 EXCEPT !.preedit = get_auxiliary_text(sg),
                                                   !.suggestions = <<sg>>], in)
               IN IF s1.err THEN s1 ELSE update_candidate_list(s1, in)

\* pop that moves the highlight to the engine's hint, as keypress does
pop_restores_hint(s, sg, in) ==
    LET s0 == Log(s, "backspace_event", 0, <<>>)
    IN IF is_empty(sg)
          THEN abort([s0 EXCEPT !.preedit = <<>>], in)
       ELSE IF is_lonely(sg)
          THEN update_preedit([s0 EXCEPT !.preedit = get_pre_edit_text(sg, 0),
                                         !.suggestions = <<sg>>], in)
          ELSE LET prev == previously_selected_index(sg)
                   s1 == update_preedit([s0 EXCEPT !.preedit = get_auxiliary_text(sg),
                                                   !.suggestions = <<sg>>], in)
                   s2 == update_candidate_list(s1, in)
               IN IF s1.err THEN s1
                  ELSE IF s2.err THEN s2
                  ELSE IF prev # 0
                      THEN Ok([s2 EXCEPT !.cl = set_highlight(@, prev, in.render)])
                      ELSE Ok(s2)

pop(s, sg, in) ==
    LET s0 == Log(s, "backspace_event", 0, <<>>)
    IN IF is_empty(sg)
          THEN abort([s0 EXCEPT !.preedit = <<>>], in)
       ELSE IF is_lonely(sg)
          THEN LET s1 == update_preedit([s0 EXCEPT !.preedit = get_pre_edit_text(sg, 0),
                                                   !.suggestions = <<sg>>], in)
               IN s1
          ELSE LET s1 == update_preedit([s0 EXCEPT !.preedit = get_auxiliary_text(sg),
                                                   !.suggestions = <<sg>>], in)
               IN IF s1.err THEN s1 ELSE update_candidate_list(s1, in)

\* the range check off by one: index > len()
select_noop_off_by_one(s, index) ==
    /\ ~is_lonely(s.suggestions[1])
    /\ index > len(s.suggestions[1])

\* select's early return: not lonely and index out of range
select_noop(s, index) ==
    /\ ~is_lonely(s.suggestions[1])
    /\ index >= len(s.suggestions[1])

select(s, index, append, in) ==
    IF s.suggestions = <<>> THEN Err(s)       \* unwrap() of None: the call does not return
    ELSE IF select_noop(s, index) THEN Ok(s)
    ELSE LET sugg == get_pre_edit_text(s.suggestions[1], index)
             s1 == Log(s, "candidate_committed", index, <<>>)
             s2 == set_text(s1, sugg \o append, in)
         IN IF s2.err THEN s2 ELSE end_composition(s2)

\* commit that always takes the first candidate
commit_selected_first(s) == 0

\* the index commit hands to select
commit_selected(s) ==
    IF ~is_lonely(s.suggestions[1]) /\ has_candidate_list(s)
        THEN get_highlighted_index(s.cl)
        ELSE 0

commit(s, append, in) ==
    IF s.suggestions = <<>> THEN Err(s)       \* unwrap() of None
    ELSE select(s, commit_selected(s), append, in)

release(s, in) ==
    LET s1 == set_text(s, s.preedit, in)
    IN IF s1.err THEN s1 ELSE end_composition(s1)

force_release(s, ch, in) ==
    LET s0 == [s EXCEPT !.preedit = Append(@, ch)]
        s1 == set_text(s0, s0.preedit, in)
    IN IF s1.err THEN s1 ELSE end_composition(s1)

force_commit(s, ch, in) ==
    IF s.suggestions = <<>> THEN Err(s)       \* unwrap() of None
    ELSE IF is_empty(s.suggestions[1]) THEN force_release(s, ch, in)
    ELSE LET sugg == get_pre_edit_text(s.suggestions[1], 0)
             s1 == set_text(s, sugg, in)
         IN IF s1.err THEN s1 ELSE end_composition(s1)

-----------------------------------------------------------------------------
(* The session lock (RwLock<TextServiceInner>) *)

\* RwLock::write: waits while the lock is held
write(l) == [acquired |-> l = "free", waits |-> l # "free"]
\* RwLock::try_write: never waits, fails while the lock is held
try_write(l) == [acquired |-> l = "free", waits |-> FALSE]

\* the notification handler taking the lock with the blocking write()
SinkAcquire_blocking(l) == write(l)

\* the acquisition OnCompositionTerminated makes
SinkAcquire(l) == try_write(l)

-----------------------------------------------------------------------------
(* State, as a record, and back *)

St ==
    [composition |-> composition, preedit |-> preedit, suggestions |-> suggestions,
     cl |-> candidate_list, hostOpen |-> hostOpen, events |-> events, err |-> FALSE]

Store(s) ==
    /\ composition' = s.composition
    /\ preedit' = s.preedit
    /\ suggestions' = s.suggestions
    /\ candidate_list' = s.cl
    /\ hostOpen' = s.hostOpen
    /\ events' = s.events

Result(s) == IF s.err THEN "err" ELSE "ok"

Op(name, sg, index, append) ==
    [op |-> name, sg |-> sg, index |-> index, append |-> append]
NoOp == Op("none", <<>>, 0, <<>>)

Init ==
    /\ composition = FALSE
    /\ preedit = <<>>
    /\ suggestions = <<>>
    /\ candidate_list = NoWindow
    /\ hostOpen = FALSE
    /\ lock = "free"
    /\ pc = "idle"
    /\ cur = NoOp
    /\ ret = "none"
    /\ sinkpc = "none"
    /\ events = <<>>
    /\ conf = [vertical |-> FALSE]
    /\ metrics = [cw0 |-> 7, cwd |-> 0, iw0 |-> 4, iwd |-> 0, ch0 |-> 8, chd |-> 0, ih0 |-> 6]
    /\ paint_arg = <<>>
    /\ wnd_size = <<0, 0>>
    /\ frame = <<>>
    /\ CONF = <<conf>>
    /\ conf_toml = "default"
    /\ loads = 1
    /\ enumerated = FALSE
    /\ enum_log = <<>>

\* a client call can be dispatched: nothing is in flight and write() succeeds
Ready == pc = "idle" /\ sinkpc # "called" /\ ~write(lock).waits

\* the handler takes the lock and runs into its host write
Enter(c) ==
    /\ lock' = "client"
    /\ pc' = "host_write"
    /\ cur' = c
    /\ ret' = "pending"
    /\ sinkpc' = "none"
    /\ events' = <<>>
    /\ UNCHANGED <<composition, preedit, suggestions, candidate_list, hostOpen>>
    /\ UNCHANGED paintvars
    /\ UNCHANGED <<confvars, enumvars>>

\* the handler runs to its end without waiting in the host
Finish(c, s) ==
    /\ Store(s)
    /\ cur' = c
    /\ ret' = Result(s)
    /\ sinkpc' = "none"
    /\ UNCHANGED <<lock, pc>>
    /\ UNCHANGED paintvars
    /\ UNCHANGED <<confvars, enumvars>>

Fresh == [St EXCEPT !.events = <<>>]

-----------------------------------------------------------------------------
(* Client operations *)

StartComposition ==
    /\ Ready
    /\ ~composition
    /\ \E in \in Inputs("start_composition", St) :
          Finish(Op("start_composition", <<>>, 0, <<>>), start_composition(Fresh, in))

Keypress ==
    /\ Ready
    /\ composition
    /\ Enter(Op("keypress", <<>>, 0, <<>>))

Pop ==
    /\ Ready
    /\ composition
    /\ Enter(Op("pop", <<>>, 0, <<>>))

Commit ==
    /\ Ready
    /\ composition
    /\ suggestions # <<>>
    /\ \E append \in AppendChars :
          LET c == Op("commit", <<>>, 0, append)
          IN IF select_noop(St, commit_selected(St))
                THEN \E in \in Inputs("commit", St) : Finish(c, commit(Fresh, append, in))
                ELSE Enter(c)

Select ==
    /\ Ready
    /\ composition
    /\ suggestions # <<>>
    /\ \E index \in 0..MaxLen, append \in AppendChars :
          LET c == Op("select", <<>>, index, append)
          IN IF select_noop(St, index)
                THEN \E in \in Inputs("select", St) : Finish(c, select(Fresh, index, append, in))
                ELSE Enter(c)

ForceCommit ==
    /\ Ready
    /\ composition
    /\ suggestions # <<>>
    /\ Len(preedit) < MaxPreedit
    /\ \E ch \in RawChars : Enter(Op("force_commit", <<>>, 0, <<ch>>))

Release ==
    /\ Ready
    /\ composition
    /\ Enter(Op("release", <<>>, 0, <<>>))

\* ITfThreadMgrEventSink::OnSetFocus: self.write()?.abort()
OnSetFocus ==
    /\ Ready
    /\ IF composition
          THEN Enter(Op("OnSetFocus", <<>>, 0, <<>>))
          ELSE \E in \in Inputs("OnSetFocus", St) : Finish(Op("OnSetFocus", <<>>, 0, <<>>), abort(Fresh, in))

\* the highlight moves record, as the operation's index, where they started
MoveHighlightNext ==
    /\ Ready
    /\ composition
    /\ has_candidate_list(St)
    /\ \E r \in RenderOutcomes :
          Finish(Op("move_highlight_next", <<>>, get_highlighted_index(candidate_list), <<>>),
                 [Fresh EXCEPT !.cl = move_highlight_next(@, r)])

MoveHighlightPrev ==
    /\ Ready
    /\ composition
    /\ has_candidate_list(St)
    /\ \E r \in RenderOutcomes :
          Finish(Op("move_highlight_prev", <<>>, get_highlighted_index(candidate_list), <<>>),
                 [Fresh EXCEPT !.cl = move_highlight_prev(@, r)])

ResetHighlight ==
    /\ Ready
    /\ composition
    /\ has_candidate_list(St)
    /\ Finish(Op("reset_highlight", <<>>, 0, <<>>),
              [Fresh EXCEPT !.cl = reset_highlight(@)])

\* the handler in flight; in.sg is the CandidateSet the engine answers
Handler(c, s, in) ==
    CASE c.op = "keypress" -> keypress(s, in.sg[1], in)
      [] c.op = "pop" -> pop(s, in.sg[1], in)
      [] c.op = "commit" -> commit(s, c.append, in)
      [] c.op = "select" -> select(s, c.index, c.append, in)
      [] c.op = "force_commit" -> force_commit(s, c.append[1], in)
      [] c.op = "release" -> release(s, in)
      [] c.op = "OnSetFocus" -> abort(s, in)

\* the host write returns (after any nested notification has returned), the
\* handler runs to its end and the lock is released
HostWriteReturns ==
    /\ pc = "host_write"
    /\ sinkpc # "called"
    /\ \E in \in Inputs(cur.op, St) :
          LET s == Handler(cur, St, in)
          IN /\ Store(s)
             /\ ret' = Result(s)
             /\ cur' = [cur EXCEPT !.sg = in.sg]
    /\ pc' = "idle"
    /\ lock' = "free"
    /\ UNCHANGED sinkpc
    /\ UNCHANGED paintvars
    /\ UNCHANGED <<confvars, enumvars>>

-----------------------------------------------------------------------------
(* The host terminates the composition and notifies the text service *)

\* the host ends the composition itself and calls ITfCompositionSink, either
\* nested inside the client's host write or on its own
HostTerminates ==
    /\ hostOpen
    /\ sinkpc # "called"
    /\ hostOpen' = FALSE
    /\ sinkpc' = "called"
    /\ IF pc = "idle"
          THEN cur' = NoOp /\ ret' = "none" /\ events' = <<>>
          ELSE UNCHANGED <<cur, ret, events>>
    /\ UNCHANGED <<composition, preedit, suggestions, candidate_list, lock, pc>>
    /\ UNCHANGED paintvars
    /\ UNCHANGED <<confvars, enumvars>>

\* ITfCompositionSink::OnCompositionTerminated: self.try_write()?.abort()
OnCompositionTerminated ==
    /\ sinkpc = "called"
    /\ ~SinkAcquire(lock).waits
    /\ IF SinkAcquire(lock).acquired
          THEN /\ \E in \in Inputs("abort", St) : Store(abort(St, in))
               /\ sinkpc' = "aborted"
          ELSE /\ sinkpc' = "skipped"
               /\ UNCHANGED <<composition, preedit, suggestions, candidate_list,
                              hostOpen, events>>
    /\ UNCHANGED <<lock, pc, cur, ret>>
    /\ UNCHANGED paintvars
    /\ UNCHANGED <<confvars, enumvars>>

-----------------------------------------------------------------------------

Next ==
    \/ StartComposition
    \/ Keypress
    \/ Pop
    \/ Commit
    \/ Select
    \/ ForceCommit
    \/ Release
    \/ OnSetFocus
    \/ MoveHighlightNext
    \/ MoveHighlightPrev
    \/ ResetHighlight
    \/ HostWriteReturns
    \/ HostTerminates
    \/ OnCompositionTerminated

Spec == Init /\ [][Next]_vars

\* The same machine with a small environment, for the liveness check: the
\* engine answers only an empty set, a one-candidate set or a lonely set, and
\* select and commit take the first two indexes and no appended character.
LiveSets ==
    {Full(n, aux, 0) : n \in {0, 1}, aux \in AuxTexts}
        \cup {Single(t) : t \in LonelyTexts}

LiveEnv ==
    /\ cur.sg = <<>> \/ cur.sg[1] \in LiveSets
    /\ cur.index <= 1
    /\ cur.append \in {<<>>} \cup {<<ch>> : ch \in RawChars}

LiveNext == Next /\ LiveEnv'

\* every handler runs to its end: the host write returns once the nested
\* notification has returned, and the notification handler itself runs on
FairSpec ==
    /\ Init
    /\ [][LiveNext]_vars
    /\ WF_vars(HostWriteReturns /\ LiveEnv')
    /\ WF_vars(OnCompositionTerminated)

-----------------------------------------------------------------------------
(* The candidate window on its own: its operations called in any order,    *)
(* with the layout repaint computes and the frames paint draws.            *)

\* a candidate text: every other one is outside ASCII
LayoutText(i) == <<i + 128 * (i % 2)>>

\* the lists shown: up to MaxLen candidates
LayoutLists == {[i \in 1..n |-> LayoutText(i)] : n \in 0..MaxLen}

\* the session the window is operated in: composing, with a list
LayoutSessions ==
    {[composition |-> TRUE, preedit |-> <<20>>,
      suggestions |-> <<Full(MaxLen, <<20>>, 0)>>]}

LayoutInit ==
    /\ \E session \in LayoutSessions :
          /\ composition = session.composition
          /\ preedit = session.preedit
          /\ suggestions = session.suggestions
          /\ hostOpen = session.composition
    /\ candidate_list = create(TRUE)
    /\ lock = "free"
    /\ pc = "idle"
    /\ cur = NoOp
    /\ ret = "none"
    /\ sinkpc = "none"
    /\ events = <<>>
    /\ conf \in Confs
    /\ metrics \in Metrics
    /\ paint_arg = <<>>
    /\ wnd_size = <<0, 0>>
    /\ frame = <<>>
    /\ CONF = <<conf>>
    /\ conf_toml = "default"
    /\ loads = 1
    /\ enumerated = FALSE
    /\ enum_log = <<>>

\* a window operation that clears the session's CandidateSet
WindowCall_clearing(c, result, w) ==
    /\ candidate_list' = w
    /\ cur' = c
    /\ ret' = result
    /\ frame' = <<>>
    /\ suggestions' = <<>>
    /\ UNCHANGED <<composition, preedit, hostOpen, lock, pc, sinkpc, conf, metrics>>
    /\ UNCHANGED <<confvars, enumvars>>

\* a call of a window operation: the session is not involved
WindowCall(c, result, w) ==
    /\ candidate_list' = w
    /\ cur' = c
    /\ ret' = result
    /\ frame' = <<>>
    /\ UNCHANGED <<composition, preedit, suggestions, hostOpen, lock, pc, sinkpc,
                   conf, metrics>>
    /\ UNCHANGED <<confvars, enumvars>>

WShow ==
    \E suggs \in LayoutLists, r \in RenderOutcomes :
        LET res == show(candidate_list, suggs, r)
        IN /\ WindowCall(Op("show", <<>>, Len(suggs), <<>>), Result(res), res.w)
           /\ RepaintSurface(res.w, TRUE, r)

WMoveHighlightNext ==
    \E r \in RenderOutcomes :
        LET w == move_highlight_next(candidate_list, r)
        IN /\ WindowCall(Op("move_highlight_next", <<>>,
                            get_highlighted_index(candidate_list), <<>>), "ok", w)
           /\ IF get_candidate_count(candidate_list) = 0
                 THEN NoRepaint
                 ELSE RepaintSurface(w, FALSE, r)

WMoveHighlightPrev ==
    \E r \in RenderOutcomes :
        LET w == move_highlight_prev(candidate_list, r)
        IN /\ WindowCall(Op("move_highlight_prev", <<>>,
                            get_highlighted_index(candidate_list), <<>>), "ok", w)
           /\ IF get_candidate_count(candidate_list) = 0
                 THEN NoRepaint
                 ELSE RepaintSurface(w, FALSE, r)

\* set_highlight's return value
set_highlight_result(w, index) == IF index >= w.candidate_count THEN "false" ELSE "true"

WSetHighlight ==
    \E index \in 0..MaxLen, r \in RenderOutcomes :
        LET w == set_highlight(candidate_list, index, r)
        IN /\ WindowCall(Op("set_highlight", <<>>, index, <<>>),
                         set_highlight_result(candidate_list, index), w)
           /\ IF set_highlight_result(candidate_list, index) = "false"
                 THEN NoRepaint
                 ELSE RepaintSurface(w, FALSE, r)

WResetHighlight ==
    /\ WindowCall(Op("reset_highlight", <<>>, 0, <<>>), "ok", reset_highlight(candidate_list))
    /\ NoRepaint

WHide ==
    /\ WindowCall(Op("hide", <<>>, 0, <<>>), "ok", hide(candidate_list))
    /\ NoRepaint

\* WM_PAINT: paint takes the PaintArg out of the window's user data; without
\* one, or without a render target or text formats, it draws nothing
WPaint ==
    \E outcome \in PaintOutcomes :
        /\ cur' = Op("paint", <<>>, 0, <<>>)
        /\ ret' = IF paint_arg = <<>> THEN "no_arg" ELSE outcome
        /\ paint_arg' = <<>>
        /\ frame' = IF paint_arg = <<>> \/ outcome \in {"no_render_target", "no_text_formats"}
                       THEN <<>>
                       ELSE <<paint(paint_arg[1], outcome)>>
        /\ events' = <<>>
        /\ UNCHANGED <<composition, preedit, suggestions, candidate_list, hostOpen,
                       lock, pc, sinkpc, conf, metrics, wnd_size>>
        /\ UNCHANGED <<confvars, enumvars>>

LayoutNext ==
    \/ WShow
    \/ WMoveHighlightNext
    \/ WMoveHighlightPrev
    \/ WSetHighlight
    \/ WResetHighlight
    \/ WHide
    \/ WPaint

LayoutSpec == LayoutInit /\ [][LayoutNext]_vars

-----------------------------------------------------------------------------
(* The configuration: conf::get and the file it is loaded from.  The       *)
(* window reads it in create, repaint and paint.                           *)

\* the built-in configuration, toml::from_str(DEFAULT_CONF)
DEFAULT_CONF == [vertical |-> FALSE]

\* what Conf::open can find: no %APPDATA%, no file, a file that cannot be
\* read, one that does not parse, or one of three texts that do
ConfFiles ==
    {"no_appdata", "missing", "unreadable", "invalid", "vertical", "horizontal", "default"}

\* toml::from_str of a text that parses
parse(text) ==
    IF text = "vertical" THEN [vertical |-> TRUE]
    ELSE IF text = "horizontal" THEN [vertical |-> FALSE]
    ELSE DEFAULT_CONF

\* Conf::open: io is whether creating the directory and writing the file work
open(file, io) ==
    IF file = "no_appdata" THEN [ok |-> FALSE, conf |-> DEFAULT_CONF, file |-> file]
    ELSE IF file = "missing"
        THEN IF io THEN [ok |-> TRUE, conf |-> DEFAULT_CONF, file |-> "default"]
             ELSE [ok |-> FALSE, conf |-> DEFAULT_CONF, file |-> file]
    ELSE IF file \in {"unreadable", "invalid"}
        THEN [ok |-> FALSE, conf |-> DEFAULT_CONF, file |-> file]
    ELSE [ok |-> TRUE, conf |-> parse(file), file |-> file]

\* Conf::open_or_default: Conf::open().log_err().unwrap_or_default()
open_or_default(file, io) ==
    LET r == open(file, io)
    IN [conf |-> IF r.ok THEN r.conf ELSE DEFAULT_CONF, file |-> r.file]

\* a get that loads the file on every call
get_reloading(cell, file, io) ==
    [cell |-> <<open_or_default(file, io).conf>>,
     file |-> open_or_default(file, io).file,
     loaded |-> TRUE]

\* conf::get: CONF.get_or_init(Conf::open_or_default)
get(cell, file, io) ==
    IF cell # <<>> THEN [cell |-> cell, file |-> file, loaded |-> FALSE]
    ELSE [cell |-> <<open_or_default(file, io).conf>>,
          file |-> open_or_default(file, io).file,
          loaded |-> TRUE]

ConfInit ==
    /\ composition = TRUE
    /\ preedit = <<20>>
    /\ suggestions = <<Full(MaxLen, <<20>>, 0)>>
    /\ hostOpen = TRUE
    /\ candidate_list = NoWindow
    /\ lock = "free"
    /\ pc = "idle"
    /\ cur = NoOp
    /\ ret = "none"
    /\ sinkpc = "none"
    /\ events = <<>>
    /\ conf = DEFAULT_CONF
    /\ metrics = [cw0 |-> 7, cwd |-> 3, iw0 |-> 4, iwd |-> 1, ch0 |-> 8, chd |-> 2, ih0 |-> 6]
    /\ paint_arg = <<>>
    /\ wnd_size = <<0, 0>>
    /\ frame = <<>>
    /\ CONF = <<>>
    /\ conf_toml \in ConfFiles
    /\ loads = 0
    /\ enumerated = FALSE
    /\ enum_log = <<>>

\* the effect of one conf::get() on the cell, the file and the caller
ConfRead(io) ==
    LET g == get(CONF, conf_toml, io)
    IN /\ CONF' = g.cell
       /\ conf_toml' = g.file
       /\ loads' = loads + (IF g.loaded THEN 1 ELSE 0)
       /\ conf' = g.cell[1]
       /\ events' = IF g.loaded THEN <<Ev("open_or_default", 0, <<>>)>> ELSE <<>>

\* conf::get(), by any caller
ConfGet ==
    \E io \in BOOLEAN :
        /\ ConfRead(io)
        /\ cur' = Op("conf::get", <<>>, 0, <<>>)
        /\ ret' = "ok"
        /\ frame' = <<>>
        /\ UNCHANGED <<composition, preedit, suggestions, candidate_list, hostOpen,
                       lock, pc, sinkpc, metrics, paint_arg, wnd_size, enumvars>>

\* CandidateList::create: reads the configuration, then creates a window
ConfCreate ==
    \E io \in BOOLEAN, ok \in BOOLEAN :
        /\ ConfRead(io)
        /\ candidate_list' = create(ok)
        /\ cur' = Op("create", <<>>, 0, <<>>)
        /\ ret' = IF ok THEN "ok" ELSE "err"
        /\ paint_arg' = <<>>
        /\ wnd_size' = <<0, 0>>
        /\ frame' = <<>>
        /\ UNCHANGED <<composition, preedit, suggestions, hostOpen,
                       lock, pc, sinkpc, metrics, enumvars>>

\* somebody edits, removes or breaks conf.toml
ConfFileChanges ==
    /\ conf_toml' \in ConfFiles \ {conf_toml}
    /\ UNCHANGED <<composition, preedit, suggestions, candidate_list, hostOpen,
                   lock, pc, cur, ret, sinkpc, events, paintvars, CONF, loads, enumvars>>

\* the window operations that lay out and draw with the configuration
ConfShow == candidate_list.created /\ WShow
ConfMoveHighlightNext == candidate_list.created /\ WMoveHighlightNext
ConfPaint == candidate_list.created /\ WPaint

ConfNext ==
    \/ ConfGet
    \/ ConfCreate
    \/ ConfFileChanges
    \/ ConfShow
    \/ ConfMoveHighlightNext
    \/ ConfPaint

ConfSpec == ConfInit /\ [][ConfNext]_vars

-----------------------------------------------------------------------------
(* The display-attribute enumerator: EnumDisplayAttributeInfo *)

\* AtomicBool::fetch_and(val): stores (current AND val), returns the value before
fetch_and(current, val) == [old |-> current, new |-> current /\ val]

\* an entry of the log: the call, its count argument and what it answered
EnumCall(name, count, fetched, result) ==
    [op |-> name, count |-> count, fetched |-> fetched, result |-> result]

EnumInit ==
    /\ composition = FALSE
    /\ preedit = <<>>
    /\ suggestions = <<>>
    /\ hostOpen = FALSE
    /\ candidate_list = NoWindow
    /\ lock = "free"
    /\ pc = "idle"
    /\ cur = NoOp
    /\ ret = "none"
    /\ sinkpc = "none"
    /\ events = <<>>
    /\ conf = DEFAULT_CONF
    /\ metrics = [cw0 |-> 7, cwd |-> 0, iw0 |-> 4, iwd |-> 0, ch0 |-> 8, chd |-> 0, ih0 |-> 6]
    /\ paint_arg = <<>>
    /\ wnd_size = <<0, 0>>
    /\ frame = <<>>
    /\ CONF = <<conf>>
    /\ conf_toml = "default"
    /\ loads = 1
    /\ enumerated = FALSE
    /\ enum_log = <<>>

\* a call on the enumerator: its new flag and its log entry
EnumStep(flag, call) ==
    /\ enumerated' = flag
    /\ enum_log' = Append(enum_log, call)
    /\ cur' = Op(call.op, <<>>, call.count, <<>>)
    /\ ret' = call.result
    /\ UNCHANGED <<composition, preedit, suggestions, candidate_list, hostOpen,
                   lock, pc, sinkpc, events, paintvars, confvars>>

\* ITfDisplayAttributeProvider::EnumDisplayAttributeInfo: a new enumerator
EnumCreate ==
    /\ enumerated' = FALSE
    /\ enum_log' = <<>>
    /\ cur' = Op("EnumDisplayAttributeInfo", <<>>, 0, <<>>)
    /\ ret' = "ok"
    /\ UNCHANGED <<composition, preedit, suggestions, candidate_list, hostOpen,
                   lock, pc, sinkpc, events, paintvars, confvars>>

\* Next(count, info, fetched)
EnumNext ==
    \E count \in 1..2 :
        LET f == fetch_and(enumerated, TRUE)
        IN /\ Len(enum_log) < MaxCalls
           /\ EnumStep(f.new, EnumCall("Next", count, IF f.old THEN 1 ELSE 0, "ok"))

\* Reset()
EnumReset ==
    /\ Len(enum_log) < MaxCalls
    /\ EnumStep(fetch_and(enumerated, FALSE).new, EnumCall("Reset", 0, 0, "ok"))

\* Skip(count)
EnumSkip ==
    \E count \in 0..2 :
        /\ Len(enum_log) < MaxCalls
        /\ EnumStep(IF count > 0 THEN fetch_and(enumerated, TRUE).new ELSE enumerated,
                    EnumCall("Skip", count, 0, "ok"))

\* Clone(): E_NOTIMPL
EnumClone ==
    /\ Len(enum_log) < MaxCalls
    /\ EnumStep(enumerated, EnumCall("Clone", 0, 0, "err"))

EnumSpecNext ==
    \/ EnumCreate
    \/ EnumNext
    \/ EnumReset
    \/ EnumSkip
    \/ EnumClone

EnumSpec == EnumInit /\ [][EnumSpecNext]_vars

-----------------------------------------------------------------------------
(* Vocabulary of the properties *)

Idle == ~composition
Composing == composition
\* no client operation and no notification is in flight
Quiescent == pc = "idle" /\ sinkpc # "called"
\* the last client operation was op and it has returned
Returned(op) == pc = "idle" /\ cur.op = op /\ ret \in {"ok", "err"}
\* this step is the return of the client operation op
Returns(op) ==
    /\ pc' = "idle"
    /\ cur'.op = op
    /\ \/ pc = "host_write" /\ cur.op = op
       \/ pc = "idle" /\ sinkpc # "called"
TornDown ==
    /\ ~composition
    /\ preedit = <<>>
    /\ suggestions = <<>>
    /\ ~candidate_list.visible
FirstNine(suggs) == SubSeq(suggs, 1, Min(Len(suggs), CANDI_NUM))

-----------------------------------------------------------------------------
(* C1 *)

\* C1 (as stated): whenever no operation is in flight, preedit is empty and
\* suggestions absent exactly when the session is Idle.
C1_IdleIffEmpty ==
    Quiescent => ((preedit = <<>> /\ suggestions = <<>>) <=> Idle)

\* C1 (amended): in every reachable state, an Idle session has an empty
\* preedit and no suggestions.  (The converse fails: a Composing session has
\* an empty preedit and no suggestions right after start_composition.)
C1_IdleImpliesEmpty ==
    Idle => (preedit = <<>> /\ suggestions = <<>>)

\* a composing episode with a non-empty preedit has been ended by release
C1_Witness ==
    /\ Returned("release")
    /\ ret = "ok"
    /\ Idle
    /\ \E i \in 1..Len(events) : events[i].ev = "set_text" /\ events[i].text # <<>>

-----------------------------------------------------------------------------
(* C2 *)

\* C2: after a keypress for which the engine answered a lonely set, preedit
\* equals get_pre_edit_text(0) and the candidate window is hidden.
C2_LonelyHidesWindow ==
    (Returned("keypress") /\ ret = "ok" /\ is_lonely(cur.sg[1]))
        => /\ preedit = get_pre_edit_text(cur.sg[1], 0)
           /\ ~candidate_list.visible

-----------------------------------------------------------------------------
(* C3 *)

\* the highlight keypress leaves for the hint p on a window of count candidates
HintHighlight(p, count) == IF p # 0 /\ p < count THEN p ELSE 0

-----------------------------------------------------------------------------
(* C4 *)

\* the last operation ran abort: OnSetFocus, pop with an empty result, or the
\* termination notification that acquired the lock
AbortRan ==
    \/ Returned("OnSetFocus")
    \/ Returned("pop") /\ is_empty(cur.sg[1])
    \/ sinkpc = "aborted"

\* C4: once abort has run, the session is Idle: no composition handle, empty
\* preedit, no suggestions, window hidden; whatever the state before and
\* whether or not the host write succeeded.
C4_AbortLeavesIdle == AbortRan => TornDown

\* abort ended a composition whose preedit the host refused to take
C4_Witness ==
    /\ Returned("OnSetFocus")
    /\ HasEv(events, "host_end_composition")
    /\ ~HasEv(events, "set_text")
    /\ TornDown

-----------------------------------------------------------------------------
(* C5 *)

\* C5: the termination notification never waits for the session lock.  When
\* it arrives while a client operation holds the lock it skips its cleanup:
\* composition, preedit, suggestions, the candidate window and the lock are
\* unchanged.  When the lock is free it performs abort.
C5_SinkSkipsOrAborts ==
    /\ [](sinkpc = "called" => ENABLED OnCompositionTerminated)
    /\ [][(sinkpc = "called" /\ sinkpc' # "called")
            => IF lock = "client"
                  THEN /\ sinkpc' = "skipped"
                       /\ UNCHANGED <<composition, preedit, suggestions,
                                      candidate_list, lock, pc, events>>
                  ELSE /\ sinkpc' = "aborted"
                       /\ ~composition' /\ preedit' = <<>> /\ suggestions' = <<>>
                       /\ ~candidate_list'.visible
                       /\ HasEv(events', "finish_input_session")]_vars

\* the notification came nested inside a pop and returned while pop still waits
C5_Witness ==
    /\ pc = "host_write"
    /\ cur.op = "pop"
    /\ lock = "client"
    /\ sinkpc = "skipped"
    /\ composition

-----------------------------------------------------------------------------
(* C6 *)

\* C6: no deadlock.  A client operation waiting in its host write eventually
\* returns and releases the lock, and a delivered termination notification
\* eventually returns, in every interleaving of the two.
C6_NoDeadlock ==
    /\ (pc = "host_write") ~> (pc = "idle" /\ lock = "free")
    /\ (sinkpc = "called") ~> (sinkpc # "called")

\* pop has returned after a notification was delivered, and skipped, inside it
C6_Witness ==
    /\ Returned("pop")
    /\ lock = "free"
    /\ sinkpc = "skipped"

-----------------------------------------------------------------------------
(* C7 *)

\* C7: when pop returns after backspace_event answered an empty set, the
\* session is Idle with an empty preedit, the window is hidden, and the
\* engine's finish_input_session was called exactly once during that pop,
\* also when the termination notification fired inside it and was skipped.
C7_PopEmptyAborts ==
    (Returned("pop") /\ is_empty(cur.sg[1]))
        => /\ TornDown
           /\ CountEv(events, "finish_input_session") = 1

\* pop of the last character, with the notification nested inside it
C7_Witness ==
    /\ Returned("pop")
    /\ is_empty(cur.sg[1])
    /\ sinkpc = "skipped"
    /\ HasEv(events, "host_end_composition")

-----------------------------------------------------------------------------
(* C8 *)

\* C8: select(index, append) on a non-lonely set with index >= len() changes
\* nothing: the composition handle, preedit, suggestions and the window
\* (visibility, candidates, highlight) stay as they were, and no call is made
\* to the engine or the host.
C8_SelectOutOfRangeNoop ==
    [][(/\ Returns("select")
        /\ suggestions # <<>>
        /\ ~is_lonely(suggestions[1])
        /\ cur'.index >= len(suggestions[1]))
          => /\ UNCHANGED <<composition, preedit, suggestions, candidate_list, hostOpen>>
             /\ events' = <<>>
             /\ ret' = "ok"]_vars

\* an out-of-range select returned while the window shows the candidates
C8_Witness ==
    /\ Returned("select")
    /\ ret = "ok"
    /\ composition
    /\ suggestions # <<>>
    /\ ~is_lonely(suggestions[1])
    /\ ~is_empty(suggestions[1])
    /\ cur.index >= len(suggestions[1])
    /\ candidate_list.visible
    /\ events = <<>>

-----------------------------------------------------------------------------
(* C9 *)

\* C9: select(index, append) with a lonely set, or with index < len(), first
\* tells the engine candidate_committed(index), once, then writes
\* get_pre_edit_text(index) followed by the appended character to the host,
\* then ends the composition: the session is Idle when it returns.
C9_SelectCommitsAndEnds ==
    [][(/\ Returns("select")
        /\ suggestions # <<>>
        /\ (is_lonely(suggestions[1]) \/ cur'.index < len(suggestions[1])))
          => /\ Len(events') >= 3
             /\ events'[1] = Ev("candidate_committed", cur'.index, <<>>)
             /\ CountEv(events', "candidate_committed") = 1
             /\ events'[2] = Ev("set_text", 0,
                                get_pre_edit_text(suggestions[1], cur'.index) \o cur'.append)
             /\ events'[3].ev = "host_end_composition"
             /\ ~composition'
             /\ preedit' = <<>>
             /\ suggestions' = <<>>]_vars

-----------------------------------------------------------------------------
(* C10 *)

\* the index the claim says commit finalizes
C10_Index ==
    IF is_lonely(suggestions[1]) THEN 0
    ELSE IF candidate_list.created THEN candidate_list.highlighted_index
    ELSE 0

-----------------------------------------------------------------------------
(* C11 *)

\* C11: force_commit(ch) on an empty set appends ch to preedit and writes the
\* resulting preedit to the host; on any other set it writes the text of
\* candidate 0 whatever the window highlights; in both cases the composition
\* has ended when it returns: the session is Idle.
C11_ForceCommitEnds ==
    [][(Returns("force_commit") /\ suggestions # <<>>)
          => /\ events' # <<>>
             /\ events'[1] =
                   Ev("set_text", 0,
                      IF is_empty(suggestions[1])
                          THEN preedit \o cur'.append
                          ELSE get_pre_edit_text(suggestions[1], 0))
             /\ ~composition'
             /\ preedit' = <<>>
             /\ suggestions' = <<>>]_vars

-----------------------------------------------------------------------------
(* C12 *)

\* C12: release() writes exactly the current preedit to the host and then
\* ends the composition: the session is Idle when it returns.
C12_ReleaseWritesPreedit ==
    [][Returns("release")
          => /\ Len(events') >= 2
             /\ events'[1] = Ev("set_text", 0, preedit)
             /\ events'[2].ev = "host_end_composition"
             /\ ~composition'
             /\ preedit' = <<>>
             /\ suggestions' = <<>>]_vars

-----------------------------------------------------------------------------
(* C13 *)

\* the current operation ran end_composition
EndedComposition == HasEv(events, "finish_input_session")

-----------------------------------------------------------------------------
(* C14 *)

\* C14: abort never fails its caller: OnSetFocus, and a pop whose result was
\* empty, return Ok whether or not a composition exists and whether or not
\* the host took the preedit.
C14_AbortReturnsOk ==
    (Returned("OnSetFocus") \/ (Returned("pop") /\ is_empty(cur.sg[1])))
        => ret = "ok"

-----------------------------------------------------------------------------
(* C15 *)

\* C15: after a select with an index in range, a release or a force_commit
\* has returned, the session is Idle, also when the host refused the text:
\* it is never Composing with the engine already told of the commit.
C15_WriteFailureStillEnds ==
    (\/ Returned("release")
     \/ Returned("force_commit")
     \/ Returned("select") /\ HasEv(events, "candidate_committed"))
        => Idle

-----------------------------------------------------------------------------
(* C16 *)

\* C16: a rendering failure while the list is shown never reaches the
\* session: keypress and pop return Ok although the overlay could not be
\* resized.
C16_RenderFailureSwallowed ==
    ((Returned("keypress") \/ Returned("pop")) /\ HasEv(events, "resize_failed"))
        => ret = "ok"

-----------------------------------------------------------------------------
(* C17 *)

\* the lists handed to show: what the engine's sets hold
ShowLists == {get_suggestions(sg) : sg \in EngineSets}

\* C17: in every reachable state of the window the highlighted index is below
\* the candidate count whenever the candidate list is non-empty, and it is 0
\* right after every show: for a show applied to the window as it is now, and
\* after a pop that showed a list.
C17_HighlightInRange ==
    /\ candidate_list.candidates # <<>>
          => /\ candidate_list.candidate_count = Len(candidate_list.candidates)
             /\ candidate_list.highlighted_index < candidate_list.candidate_count
    /\ \A suggs \in ShowLists, r \in RenderOutcomes :
          show(candidate_list, suggs, r).w.highlighted_index = 0
    /\ (Returned("pop") /\ HasEv(events, "show"))
          => candidate_list.highlighted_index = 0

\* the engine's hint pointed past the nine stored candidates and was refused
C17_Witness ==
    /\ Returned("keypress")
    /\ ret = "ok"
    /\ previously_selected_index(cur.sg[1]) = CANDI_NUM
    /\ candidate_list.candidate_count = CANDI_NUM
    /\ candidate_list.highlighted_index = 0

-----------------------------------------------------------------------------
(* C18 *)

\* w holds the first min(Len(suggs), 9) entries of suggs, in order
StoresFirstNine(w, suggs) ==
    LET n == IF Len(suggs) < CANDI_NUM THEN Len(suggs) ELSE CANDI_NUM
    IN /\ Len(w.candidates) = n
       /\ \A i \in 1..n : w.candidates[i] = suggs[i]
       /\ w.candidate_count = n

\* C18: show(list) stores the first min(len(list), 9) entries of list in
\* order, sets the candidate count to that number and the highlighted index
\* to 0, whatever the window held before: for a show applied to the window as
\* it is now, and for the window a keypress or pop leaves after its show.
C18_ShowStoresFirstNine ==
    /\ \A suggs \in ShowLists, r \in RenderOutcomes :
          LET w2 == show(candidate_list, suggs, r).w
          IN StoresFirstNine(w2, suggs) /\ w2.highlighted_index = 0
    /\ ((Returned("keypress") \/ Returned("pop")) /\ HasEv(events, "show"))
          => StoresFirstNine(candidate_list, get_suggestions(cur.sg[1]))

\* pop showed a list of ten candidates and the window holds nine
C18_Witness ==
    /\ Returned("pop")
    /\ HasEv(events, "show")
    /\ len(cur.sg[1]) = CANDI_NUM + 1
    /\ Len(candidate_list.candidates) = CANDI_NUM
    /\ candidate_list.visible

-----------------------------------------------------------------------------
(* C19 *)

\* C19: with a candidate count above 0, move_highlight_next followed by
\* move_highlight_prev brings the highlighted index back to where it was, and
\* so does prev followed by next: for two successive client calls, and for
\* the two operations applied to the window as it is now.
C19_NextPrevRoundTrip ==
    /\ [](candidate_list.candidate_count > 0 =>
            \A r1 \in RenderOutcomes, r2 \in RenderOutcomes :
               /\ move_highlight_prev(move_highlight_next(candidate_list, r1), r2).highlighted_index
                     = candidate_list.highlighted_index
               /\ move_highlight_next(move_highlight_prev(candidate_list, r1), r2).highlighted_index
                     = candidate_list.highlighted_index)
    /\ [][/\ (/\ Returned("move_highlight_next")
              /\ Returns("move_highlight_prev")
              /\ candidate_list.candidate_count > 0)
                => candidate_list'.highlighted_index = cur.index
          /\ (/\ Returned("move_highlight_prev")
              /\ Returns("move_highlight_next")
              /\ candidate_list.candidate_count > 0)
                => candidate_list'.highlighted_index = cur.index]_vars

\* move_highlight_prev went from the first of nine candidates to the last
C19_Witness ==
    /\ Returned("move_highlight_prev")
    /\ candidate_list.candidate_count = CANDI_NUM
    /\ cur.index = 0
    /\ candidate_list.highlighted_index = CANDI_NUM - 1

-----------------------------------------------------------------------------
(* C20 *)

\* C20: move_highlight_next takes the highlighted index from i to
\* (i + 1) mod count and move_highlight_prev from i to (i - 1) mod count; with
\* no candidates both change nothing; the stored candidates, the count and
\* the window's visibility stay as they were, and so does the session.
C20_MoveHighlightWraps ==
    [][LET w == candidate_list
           n == candidate_list.candidate_count
       IN /\ Returns("move_highlight_next")
                => /\ candidate_list' =
                         IF n = 0 THEN w
                         ELSE [w EXCEPT !.highlighted_index = (w.highlighted_index + 1) % n]
                   /\ UNCHANGED <<composition, preedit, suggestions, hostOpen>>
          /\ Returns("move_highlight_prev")
                => /\ candidate_list' =
                         IF n = 0 THEN w
                         ELSE [w EXCEPT !.highlighted_index = (w.highlighted_index + n - 1) % n]
                   /\ UNCHANGED <<composition, preedit, suggestions, hostOpen>>]_vars

\* move_highlight_next went from the last of two candidates to the first
C20_Witness ==
    /\ Returned("move_highlight_next")
    /\ candidate_list.candidate_count = 2
    /\ cur.index = 1
    /\ candidate_list.highlighted_index = 0

-----------------------------------------------------------------------------
(* C28 *)

-----------------------------------------------------------------------------
(* C29 *)

\* C29: the highlighted index keypress hands to the engine is the window's
\* current highlighted index, and it is 0 while nothing has been highlighted
\* in this composing episode: the first keypress after start_composition
\* (no CandidateSet yet) hands over 0 whatever earlier episodes left.
C29_KeypressPassesHighlight ==
    [][Returns("keypress")
          => /\ events' # <<>>
             /\ events'[1].ev = "get_suggestion_for_key"
             /\ events'[1].idx =
                   (IF candidate_list.created THEN candidate_list.highlighted_index ELSE 0)
             /\ suggestions = <<>> => events'[1].idx = 0]_vars

-----------------------------------------------------------------------------
(* C30 *)

\* C30: a start_composition that opened the host composition leaves the
\* session Composing and returns Ok; the window is repositioned exactly when
\* a caret position was obtained (start returns Err only when a position was
\* obtained and the window could not be moved there); the window's
\* visibility, candidates and highlight are unchanged.
C30_StartComposition ==
    [][(Returns("start_composition") /\ HasEv(events', "start_composition"))
          => /\ composition'
             /\ hostOpen'
             /\ ret' = "ok"
             /\ candidate_list' = candidate_list]_vars

-----------------------------------------------------------------------------
(* The candidate window on its own (LayoutSpec) *)

\* C21: set_highlight(index) returns false exactly when index >= candidate
\* count, and then leaves highlighted_index and the candidates as they were;
\* otherwise it returns true and highlighted_index is index afterwards.
C21_SetHighlightContract ==
    [][cur'.op = "set_highlight"
          => /\ (ret' = "false") <=> (cur'.index >= candidate_list.candidate_count)
             /\ ret' = "false"
                   => /\ candidate_list'.highlighted_index = candidate_list.highlighted_index
                      /\ candidate_list'.candidates = candidate_list.candidates
             /\ ret' # "false"
                   => /\ ret' = "true"
                      /\ candidate_list'.highlighted_index = cur'.index]_vars

\* a rejected set_highlight on a list whose highlight is not on the first item
C21_Witness ==
    /\ cur.op = "set_highlight"
    /\ ret = "false"
    /\ cur.index >= candidate_list.candidate_count
    /\ candidate_list.highlighted_index > 0

\* the calls into the suggestion engine
EngineCalls ==
    {"get_suggestion_for_key", "backspace_event", "candidate_committed",
     "finish_input_session"}

\* C22: move_highlight_next, move_highlight_prev and set_highlight make no
\* call to the suggestion engine and leave the session's composition handle,
\* preedit and CandidateSet as they were.
C22_NavigationLeavesSession ==
    [][cur'.op \in {"move_highlight_next", "move_highlight_prev", "set_highlight"}
          => /\ \A i \in 1..Len(events') : events'[i].ev \notin EngineCalls
             /\ composition' = composition
             /\ preedit' = preedit
             /\ suggestions' = suggestions]_vars

\* the highlight was moved off the first item while a composition is running
C22_Witness ==
    /\ cur.op \in {"move_highlight_next", "move_highlight_prev", "set_highlight"}
    /\ composition
    /\ suggestions # <<>>
    /\ preedit # <<>>
    /\ candidate_list.highlighted_index > 0
    /\ HasEv(events, "SetWindowLongPtrA")

\* a show has just stored a snapshot and resized the window
Resized ==
    /\ cur.op = "show"
    /\ HasEv(events, "SetWindowPos")

\* the sum, over the displayed items, of what the item takes in a row when
\* its index label is label_widths[i] wide
RECURSIVE RowSum(_, _)
RowSum(label_widths, candi_widths) ==
    IF candi_widths = <<>> THEN 0
    ELSE F(LABEL_PADDING_LEFT) + Head(label_widths) + F(INDEX_CANDI_GAP)
            + Head(candi_widths) + F(LABEL_PADDING_RIGHT)
            + RowSum(Tail(label_widths), Tail(candi_widths))

\* the padded height of a row: the tallest label or candidate text
PaddedRow(m) ==
    F(LABEL_PADDING_TOP)
        + Max(SeqMax(m.index_heights), SeqMax(m.candi_heights))
        + F(LABEL_PADDING_BOTTOM)

\* C23 as stated: in horizontal layout the window width is the clip-strip
\* width plus the sum over the displayed items of (left padding + that item's
\* own index-label width + gap + that item's candidate width + right
\* padding), and the window height is one label_height.
C23_HorizontalOwnLabelWidths ==
    (Resized /\ ~conf.vertical)
        => LET m == Measured(candidate_list.candidates)
           IN /\ wnd_size[1] = ceil(F(CLIP_WIDTH) + RowSum(m.index_widths, m.candi_widths))
              /\ wnd_size[2] = ceil(PaddedRow(m))

\* C23: in horizontal layout the window width is the clip-strip width plus
\* the sum over the displayed items of (left padding + the widest index-label
\* width + gap + that item's candidate width + right padding), and the window
\* height is one label_height.
C23_HorizontalWidestLabel ==
    (Resized /\ ~conf.vertical)
        => LET m == Measured(candidate_list.candidates)
               widest == [i \in 1..Len(m.index_widths) |-> SeqMax(m.index_widths)]
           IN /\ wnd_size[1] = ceil(F(CLIP_WIDTH) + RowSum(widest, m.candi_widths))
              /\ wnd_size[2] = ceil(PaddedRow(m))

\* a horizontal window was sized for items whose index labels differ in width
C23_Witness ==
    /\ Resized
    /\ ~conf.vertical
    /\ LET m == Measured(candidate_list.candidates)
       IN /\ Len(m.index_widths) > 1
          /\ m.index_widths[1] < m.index_widths[2]
          /\ m.candi_widths[1] # m.candi_widths[2]

\* the vertical window width before the floor: the widest label and the
\* widest candidate, padded
VerticalContentWidth(m) ==
    F(CLIP_WIDTH) + F(LABEL_PADDING_LEFT) + SeqMax(m.index_widths)
        + F(INDEX_CANDI_GAP) + SeqMax(m.candi_widths) + F(LABEL_PADDING_RIGHT)

\* the floor applies: the content width is below 0.8 x the window height
Floored(m) == 5 * VerticalContentWidth(m) < 4 * (Len(m.candis) * PaddedRow(m))

\* C24: in vertical layout the window height is count x label_height, where
\* label_height is row_height plus the top and bottom padding and
\* row_height is the largest label-text or candidate-text height; the window
\* width is clip strip + left padding + widest index label + gap + widest
\* candidate + right padding, raised to 0.8 x the window height when smaller.
C24_VerticalLayout ==
    (Resized /\ conf.vertical)
        => LET m == Measured(candidate_list.candidates)
               height == Len(m.candis) * PaddedRow(m)
           IN /\ paint_arg[1].row_height
                    = Max(SeqMax(m.index_heights), SeqMax(m.candi_heights))
              /\ paint_arg[1].label_height = PaddedRow(m)
              /\ wnd_size[2] = ceil(height)
              /\ wnd_size[1] = ceil(IF Floored(m) THEN (4 * height) \div 5
                                    ELSE VerticalContentWidth(m))

\* a vertical window whose index labels are taller than its candidates and
\* whose width was raised to 0.8 x its height
C24_Witness ==
    /\ Resized
    /\ conf.vertical
    /\ LET m == Measured(candidate_list.candidates)
       IN /\ Floored(m)
          /\ SeqMax(m.index_heights) > SeqMax(m.candi_heights)
          /\ 5 * wnd_size[1] > VerticalContentWidth(m) + 4

\* this step is a paint that had a snapshot and drew a frame from it
Paints ==
    /\ cur'.op = "paint"
    /\ paint_arg # <<>>
    /\ frame' # <<>>

\* what one item takes in a row: its padded index label and candidate
ItemWidth(m, i) ==
    F(LABEL_PADDING_LEFT) + SeqMax(m.index_widths) + F(INDEX_CANDI_GAP)
        + m.candi_widths[i] + F(LABEL_PADDING_RIGHT)

RECURSIVE ItemsBefore(_, _)
ItemsBefore(m, k) == IF k = 0 THEN 0 ELSE ItemsBefore(m, k - 1) + ItemWidth(m, k)

\* C25: the highlight rectangle is that of the snapshot's highlighted item,
\* whichever it is: in horizontal mode its width is left padding + index
\* width + gap + that item's candidate width + right padding and it starts
\* after the clip strip and the items before it; in vertical mode its width
\* is the computed window width minus the clip strip and it starts
\* highlighted_index x label_height down.
C25_HighlightTracksItem ==
    [][(Paints /\ frame'[1].highlight # <<>>)
          => LET arg == paint_arg[1]
                 m == Measured(arg.candis)
                 rect == frame'[1].highlight[1]
             IN /\ rect.height = PaddedRow(m)
                /\ IF conf.vertical
                      THEN /\ rect.width
                                = (IF Floored(m)
                                      THEN (4 * Len(m.candis) * PaddedRow(m)) \div 5
                                      ELSE VerticalContentWidth(m)) - F(CLIP_WIDTH)
                           /\ rect.left = F(CLIP_WIDTH)
                           /\ rect.top = arg.highlighted_index * PaddedRow(m)
                      ELSE /\ rect.width = ItemWidth(m, arg.highlighted_index + 1)
                           /\ rect.left = F(CLIP_WIDTH) + ItemsBefore(m, arg.highlighted_index)
                           /\ rect.top = 0]_vars

\* a horizontal frame whose highlight is on the second item, which is not as
\* wide as the first
C25_Witness ==
    /\ cur.op = "paint"
    /\ ~conf.vertical
    /\ frame # <<>>
    /\ frame[1].highlight # <<>>
    /\ Len(frame[1].items) > 1
    /\ frame[1].items[2].candi_brush = "highlighted"
    /\ frame[1].highlight[1].left > F(CLIP_WIDTH)
    /\ LET m == Measured(<<frame[1].items[1].candi, frame[1].items[2].candi>>)
       IN m.candi_widths[1] # m.candi_widths[2]

\* the items of frame f whose candidate text has the highlighted colour
HighlightedItems(f) == {i \in 1..Len(f.items) : f.items[i].candi_brush = "highlighted"}

\* frame f has one highlighted item, the one at index hi (0-based), every
\* other candidate in the candidate colour and every label in the index colour
OneHighlighted(f, hi) ==
    /\ HighlightedItems(f) = {hi + 1}
    /\ \A i \in 1..Len(f.items) :
          /\ i # hi + 1 => f.items[i].candi_brush = "candidate"
          /\ f.items[i].index_brush = "index"

LayoutInputs(candis, highlighted_index) ==
    [candidates |-> candis, highlighted_index |-> highlighted_index]

-----------------------------------------------------------------------------
(* The configuration (ConfSpec) *)

\* C31: the configuration is loaded at most once, on the first access; every
\* later conf::get() returns the snapshot loaded then, nothing changes it
\* afterwards (no window operation, no change of the file), and a load that
\* fails yields the built-in default configuration, never an error.
C31_ConfLoadedOnce ==
    /\ [](loads <= 1)
    /\ [][CONF # <<>> => CONF' = CONF /\ loads' = loads]_vars
    /\ [][(CONF = <<>> /\ CONF' # <<>>)
            => /\ loads' = 1
               /\ ret' \in {"ok", "err"}
               /\ CONF'[1] = (IF conf_toml \in {"vertical", "horizontal", "default"}
                                 THEN parse(conf_toml)
                                 ELSE DEFAULT_CONF)]_vars
    /\ [][cur'.op \in {"conf::get", "create"} => conf' = CONF'[1]]_vars
    /\ [][cur'.op = "conf::get" => ret' = "ok"]_vars
    /\ [][cur'.op \notin {"conf::get", "create"} => conf' = conf]_vars

\* a conf::get() that did not load, after the file had changed to a text that
\* parses to another configuration, and a window drawn in between
C31_Witness ==
    /\ cur.op = "conf::get"
    /\ events = <<>>
    /\ loads = 1
    /\ conf_toml \in {"vertical", "horizontal"}
    /\ parse(conf_toml) # CONF[1]
    /\ conf = CONF[1]
    /\ candidate_list.visible

-----------------------------------------------------------------------------
(* The session again (Spec) *)

\* C32: when OnSetFocus returns the session is Idle and the candidate window
\* is hidden, whatever the state before: a composition in progress is
\* aborted, and with no composition open the session stays Idle.
C32_FocusChangeAborts ==
    [][Returns("OnSetFocus")
          => /\ Idle'
             /\ preedit' = <<>>
             /\ suggestions' = <<>>
             /\ ~candidate_list'.visible
             /\ ~hostOpen']_vars

\* OnSetFocus returned without a composition to end: the host was not asked
\* to end one
C32_Witness ==
    /\ Returned("OnSetFocus")
    /\ ~HasEv(events, "host_end_composition")
    /\ HasEv(events, "finish_input_session")
    /\ Idle
    /\ ~candidate_list.visible

-----------------------------------------------------------------------------
(* The display-attribute enumerator (EnumSpec) *)

\* after the calls in log the attribute has not been handed out or skipped
\* since the enumerator was created or last Reset
RECURSIVE AttributePending(_)
AttributePending(log) ==
    IF log = <<>> THEN TRUE
    ELSE LET last == log[Len(log)]
         IN IF last.op = "Reset" THEN TRUE
            ELSE IF last.op = "Next" \/ (last.op = "Skip" /\ last.count > 0) THEN FALSE
            ELSE AttributePending(SubSeq(log, 1, Len(log) - 1))

\* C33: the enumerator hands out the single display attribute exactly once:
\* a Next on a fresh or Reset enumerator fetches 1, every following Next
\* fetches 0 until Reset, and Skip(n) with n > 0 consumes the attribute.
C33_EnumeratesOnce ==
    \A i \in 1..Len(enum_log) :
        enum_log[i].op = "Next"
            => (enum_log[i].fetched = 1 <=> AttributePending(SubSeq(enum_log, 1, i - 1)))

\* C34: in every reachable state the candidate window is visible only while
\* the session is Composing.
C34_VisibleOnlyWhileComposing == candidate_list.visible => Composing

\* the session is Idle again, with the list it showed still stored in the
\* hidden window, after a termination notification ran the cleanup
C34_Witness ==
    /\ Idle
    /\ Quiescent
    /\ sinkpc = "aborted"
    /\ candidate_list.created
    /\ candidate_list.candidates # <<>>
    /\ ~candidate_list.visible


(* C35 *)

\* C35: once keypress or pop has obtained a non-lonely set and returned, the
\* window is visible exactly when the set is non-empty, and for a non-empty
\* set the window stores the first 9 entries of the session's current set.
C35_WindowFollowsSet ==
    ((Returned("keypress") \/ Returned("pop")) /\ cur.sg # <<>> /\ ~is_lonely(cur.sg[1]))
        => /\ candidate_list.visible <=> ~is_empty(cur.sg[1])
           /\ ~is_empty(cur.sg[1])
                 => /\ suggestions = cur.sg
                    /\ StoresFirstNine(candidate_list, get_suggestions(suggestions[1]))


(* C36 *)

\* C36: whenever no operation is in flight and the session holds a non-lonely,
\* non-empty set, the window's highlighted index is below the set's len(), so
\* the index commit hands to select is never one select ignores.
C36_HighlightWithinSet ==
    (Quiescent /\ suggestions # <<>> /\ ~is_lonely(suggestions[1]) /\ ~is_empty(suggestions[1]))
        => /\ candidate_list.highlighted_index < len(suggestions[1])
           /\ ~select_noop([suggestions |-> suggestions], candidate_list.highlighted_index)


(* C37 *)

\* C37: once the host has terminated the composition, its notification has
\* returned (having run abort or having skipped it) and no client operation
\* is in flight, the session is Idle: no composition handle, empty preedit,
\* no suggestions, window hidden.
C37_TerminationLeavesIdle ==
    (pc = "idle" /\ ~hostOpen /\ sinkpc \in {"skipped", "aborted"})
        => /\ Idle
           /\ TornDown


(* C38 *)

\* C38: paint snapshots are stored and reclaimed in pairs.  No repaint stores
\* a snapshot in the window's slot while an earlier one is still pending
\* there; a pending snapshot leaves the slot only by the paint that reclaims
\* it; and a paint that finds the slot empty draws nothing.
C38_SnapshotsPaired ==
    /\ [][HasEv(events', "SetWindowLongPtrA") => paint_arg = <<>>]_vars
    /\ [][(paint_arg # <<>> /\ paint_arg' # paint_arg)
            => cur'.op = "paint" /\ ret' # "no_arg" /\ paint_arg' = <<>>]_vars
    /\ [][(cur'.op = "paint" /\ paint_arg = <<>>)
            => ret' = "no_arg" /\ frame' = <<>> /\ paint_arg' = <<>>]_vars


(* C39 *)

\* the snapshot waiting in the window's slot, if there is one, was taken from
\* the window's present list and highlighted index
SnapshotCurrent ==
    paint_arg # <<>>
        => /\ paint_arg[1].highlighted_index = candidate_list.highlighted_index
           /\ paint_arg[1].candis = Measured(candidate_list.candidates).candis

\* the window operations that store the list or move the highlight
SnapshotOps ==
    {"show", "move_highlight_next", "move_highlight_prev", "set_highlight", "reset_highlight"}

\* C39: the pending snapshot is never stale.  A show or highlight operation
\* on a non-empty list whose repaint succeeds, applied when the slot is empty
\* or holds a current snapshot, leaves a pending snapshot whose highlighted
\* index and candidate strings are the window's.
C39_SnapshotNeverStale ==
    [][(/\ cur'.op \in SnapshotOps
        /\ candidate_list'.candidate_count > 0
        /\ ~HasEv(events', "resize_failed")
        /\ (candidate_list' # candidate_list /\ cur'.op # "reset_highlight")
              => HasEv(events', "SetWindowLongPtrA")
        /\ SnapshotCurrent)
            => SnapshotCurrent']_vars


(* C40 *)

\* C40: in every paint that draws the highlight, the highlight rectangle lies
\* inside the window rectangle computed for the snapshot's candidate list
\* (right edge at most the window width, bottom edge at most the window
\* height), and it sits on the highlighted item's cell: in horizontal mode
\* its left edge plus the left padding is the x at which that item's index
\* label is drawn, in vertical mode its top plus the top padding is the y at
\* which that item's text is laid out.
C40_HighlightInsideWindow ==
    [][(Paints /\ frame'[1].highlight # <<>>)
          => LET arg == paint_arg[1]
                 rect == frame'[1].highlight[1]
                 items == frame'[1].items
             IN /\ rect.left >= 0
                /\ rect.top >= 0
                /\ rect.left + rect.width <= wnd_width(arg.candis)
                /\ rect.top + rect.height <= wnd_height(arg.candis)
                /\ arg.highlighted_index < Len(arg.candis)
                /\ items # <<>>
                      => LET item == items[arg.highlighted_index + 1]
                         IN IF conf.vertical
                               THEN rect.top + F(LABEL_PADDING_TOP) = item.index_y
                               ELSE rect.left + F(LABEL_PADDING_LEFT) = item.index_x]_vars

\* a horizontal frame with the highlight on the second item, whose width
\* differs from the first's: the rectangle ends exactly at the window's right
\* edge and starts one left padding before the second index label
C40_Witness ==
    /\ cur.op = "paint"
    /\ ~conf.vertical
    /\ frame # <<>>
    /\ frame[1].highlight # <<>>
    /\ Len(frame[1].items) = 2
    /\ frame[1].items[2].candi_brush = "highlighted"
    /\ LET rect == frame[1].highlight[1]
           suggs == <<frame[1].items[1].candi, frame[1].items[2].candi>>
       IN /\ rect.left + rect.width = wnd_width(suggs)
          /\ rect.top + rect.height = wnd_height(suggs)
          /\ rect.left + F(LABEL_PADDING_LEFT) = frame[1].items[2].index_x
          /\ rect.left > F(BORDER_WIDTH + CLIP_WIDTH)
          /\ Measured(suggs).candi_widths[1] # Measured(suggs).candi_widths[2]

====
